---- MODULE Spec2Model ----
(***************************************************************************)
(* Choreography planner of the NAO project: pose catalog, mandatory order, *)
(* per-segment breadth-first search, full planner in "min" and "max" mode, *)
(* enforcement of the required intermediates, and the song-length selector *)
(* of play_sequence.py.                                                    *)
(*                                                                         *)
(* Numbers.  The program computes with Python floats (seconds).  Here a    *)
(* time is an integer number of ticks, one tick being 1/7 microsecond:     *)
(* every pose duration is a whole number of milliseconds (7000 ticks), the *)
(* tolerance 1e-6 s is 7 ticks, and the uniform split of the slack over    *)
(* the 7 segments is exact.  A speed factor is a rational num/den.  The    *)
(* inputs are chosen on grids on which the products and quotients the      *)
(* planner forms are whole ticks; where a quotient is not whole it is      *)
(* rounded down.  Rounding errors of binary floating point (about 1e-14 s) *)
(* decide a comparison of the program where the two sides are equal in     *)
(* ticks.  For the caps, budgets and sums of pose durations the last bits  *)
(* of the doubles are therefore computed next to the ticks, by the rules   *)
(* of IEEE 754 addition and subtraction, and consulted where the ticks are *)
(* equal.  This is exact at speed factor 1; at another speed factor the    *)
(* raw cap is taken as the double nearest to its value in ticks, and the   *)
(* soft targets of the segments likewise.                                  *)
(***************************************************************************)
EXTENDS Integers, Sequences, FiniteSets, TLC

\* ------------------------------------------------------------------------
\* Units and optional values
\* ------------------------------------------------------------------------

\* n milliseconds, in ticks
Ms(n) == n * 7000

\* the tolerance 1e-6 s used in every comparison against a cap or budget
EPS == 7

\* Python's None / a present value
None == [some |-> FALSE, val |-> << >>]
Some(v) == [some |-> TRUE, val |-> v]

Min2(a, b) == IF a <= b THEN a ELSE b

\* x * num / den, rounded down, without forming x * num first
MulDiv(x, num, den) == (x \div den) * num + ((x % den) * num) \div den

\* raw = effective * speed_factor   and   effective = raw / speed_factor
TimesSpeed(x, sf) == MulDiv(x, sf.num, sf.den)
OverSpeed(x, sf) == MulDiv(x, sf.den, sf.num)

\* ------------------------------------------------------------------------
\* pose_definitions.py
\* ------------------------------------------------------------------------

Pose(label, file_id, duration_ms, pre, post) ==
  [label |-> label, file_id |-> file_id, duration |-> Ms(duration_ms),
   pre |-> pre, post |-> post]

\* the two values of the only state key in use
Standing == [k \in {"standing"} |-> TRUE]
NotStanding == [k \in {"standing"} |-> FALSE]
\* the empty dict
EmptyState == [k \in {} |-> TRUE]

POSE_STAND_INIT == Pose("stand_init", "14-StandInit", 4523, Standing, Standing)
POSE_CROUCH == Pose("crouch", "6-Crouch", 5688, Standing, NotStanding)
POSE_SIT == Pose("sit", "16-Sit", 22716, Standing, NotStanding)
POSE_SIT_RELAX == Pose("sit_relax", "17-SitRelax", 9845, NotStanding, NotStanding)
POSE_STAND == Pose("stand", "11-Stand", 23157, NotStanding, Standing)
POSE_WIPE_FOREHEAD == Pose("wipe_forehead", "Wipe_Forehead", 6499, Standing, Standing)
POSE_HELLO == Pose("hello", "Hello", 5848, Standing, Standing)
POSE_STAND_ZERO == Pose("stand_zero", "15-StandZero", 4782, Standing, Standing)

initial_pose == POSE_STAND_INIT
final_pose == POSE_CROUCH

inner_mandatory_poses ==
  << POSE_HELLO, POSE_STAND_ZERO, POSE_SIT, POSE_SIT_RELAX, POSE_STAND,
     POSE_WIPE_FOREHEAD >>

POSE_ROTATION_HANDGUN ==
  Pose("rotation_handgun", "1-Rotation_handgun_object", 6204, Standing, Standing)
POSE_RIGHT_ARM == Pose("right_arm", "2-Right_arm", 17893, Standing, Standing)
POSE_DOUBLE_MOVEMENT ==
  Pose("double_movement", "3-Double_movement", 11755, Standing, Standing)
POSE_ARMS_OPENING == Pose("arms_opening", "4-Arms_opening", 13927, Standing, Standing)
POSE_UNION_ARMS == Pose("union_arms", "5-Union_arms", 10183, Standing, Standing)
POSE_MOVE_FORWARD == Pose("move_forward", "7-Move_forward", 7556, Standing, Standing)
POSE_MOVE_BACKWARD == Pose("move_backward", "8-Move_backward", 5092, Standing, Standing)
POSE_DIAGONAL_LEFT == Pose("diagonal_left", "9-Diagonal_left", 5396, Standing, Standing)
POSE_DIAGONAL_RIGHT == Pose("diagonal_right", "10-Diagonal_right", 5389, Standing, Standing)
POSE_ROTATION_FOOT_L ==
  Pose("rotation_foot_left", "13-Rotation_foot_LLeg", 13665, Standing, Standing)
POSE_ROTATION_FOOT_R ==
  Pose("rotation_foot_right", "12-Rotation_foot_RLeg", 11506, Standing, Standing)

core_intermediate_poses ==
  << POSE_ROTATION_HANDGUN, POSE_RIGHT_ARM, POSE_DOUBLE_MOVEMENT,
     POSE_ARMS_OPENING, POSE_UNION_ARMS, POSE_MOVE_FORWARD, POSE_MOVE_BACKWARD,
     POSE_DIAGONAL_LEFT, POSE_DIAGONAL_RIGHT, POSE_ROTATION_FOOT_L,
     POSE_ROTATION_FOOT_R >>

\* both extension pools are empty lists (their entries are commented out)
crg_like_intermediate_poses == << >>
ornamental_intermediate_poses == << >>

all_intermediate_poses ==
  core_intermediate_poses \o crg_like_intermediate_poses
    \o ornamental_intermediate_poses

RECURSIVE total_duration(_)
total_duration(sequence) ==
  IF sequence = << >> THEN 0
  ELSE Head(sequence).duration + total_duration(Tail(sequence))

\* Python adds durations as IEEE 754 doubles, and a sum of the same poses
\* in another order can differ in the last bit.  A double near a whole
\* number t of ticks (t a whole number of microseconds) is written [t, r]:
\* its value is (t / 7) * 2^48 + r in units of 2^-54 / 5^6 s, of which a
\* microsecond holds 2^48.  The doubles in [2^k, 2^(k+1)) seconds are the
\* multiples of 5^6 * 2^(k+2) units, for k >= -2; the times of the program
\* that are rounded lie between 0.25 s and 256 s.
Double(t, r) == [t |-> t, r |-> r]

RECURSIVE Pow2(_)
Pow2(n) == IF n = 0 THEN 1 ELSE 2 * Pow2(n - 1)

\* 2^e modulo 5^6
RECURSIVE Pow2Mod15625(_)
Pow2Mod15625(e) == IF e = 0 THEN 1 ELSE (2 * Pow2Mod15625(e - 1)) % 15625

\* the k with 2^k <= value < 2^(k+1) seconds, searched upwards from k
RECURSIVE Binade(_, _, _)
Binade(t, r, k) ==
  IF t < Ms(500) * Pow2(k + 2) \/ (t = Ms(500) * Pow2(k + 2) /\ r < 0) THEN k
  ELSE Binade(t, r, k + 1)

\* the distance between neighbouring doubles of binade k
Grid(k) == 15625 * Pow2(k + 2)

\* 2^(45-k) modulo 5^6, for the binades k used
GridPhase == [k \in -2..9 |-> Pow2Mod15625(45 - k)]

\* the exact value [t, 0] modulo two grid steps of binade k
Position(t, k) == Pow2(k + 3) * ((((t \div 7) % 15625) * GridPhase[k]) % 15625)

\* the multiple of G nearest to [t, r], which lies p units above an even
\* multiple of G (0 <= p < 2 * G); a tie goes to the even multiple
RoundOnGrid(t, r, G, p) ==
  Double(t, IF 2 * (p % G) > G \/ (2 * (p % G) = G /\ p >= G)
              THEN r - (p % G) + G
              ELSE r - (p % G))

RoundInBinade(t, r, k) ==
  CHOOSE nearest \in
    { RoundOnGrid(t, r, G, p) :
        G \in {Grid(k)}, p \in {(Position(t, k) + r) % (2 * Grid(k))} } : TRUE

\* the double nearest to the exact value [t, r], a tie going to the even one
RoundToDouble(t, r) ==
  CHOOSE nearest \in { RoundInBinade(t, r, k) : k \in {Binade(t, r, -2)} } : TRUE

\* the double a decimal literal of `duration` ticks denotes
FloatOf(duration) == RoundToDouble(duration, 0)

\* a + b in doubles; 0 + b is exact
FloatAdd(a, b) ==
  IF a.t = 0 /\ a.r = 0 THEN b ELSE RoundToDouble(a.t + b.t, a.r + b.r)

\* a - b in doubles, for a and b that are 0 or at least 4 s: both are
\* multiples of 2^-50 s, so a difference below 4 s is exact
FloatSub(a, b) ==
  IF a.t - b.t < Ms(4000) THEN Double(a.t - b.t, a.r - b.r)
  ELSE RoundToDouble(a.t - b.t, a.r - b.r)

\* a > b + 1e-6 in doubles: decided by the ticks, and by the last bits of a
\* and of the double b + 1e-6 where the ticks are equal
ExceedsTolerance(a, b) ==
  \/ a.t > b.t + EPS
  \/ a.t = b.t + EPS /\ a.r > RoundToDouble(b.t + EPS, b.r).r

\* sum(p.duration for p in sequence) continued from acc, left to right; each
\* partial sum is a value of its own before the next duration is added
RECURSIVE FloatSumFrom(_, _)
FloatSumFrom(acc, sequence) ==
  IF sequence = << >> THEN acc
  ELSE CHOOSE total \in
         { FloatSumFrom(sum, rest) :
             sum \in {FloatAdd(acc, FloatOf(Head(sequence).duration))},
             rest \in {Tail(sequence)} } : TRUE

FloatSum(sequence) == FloatSumFrom(Double(0, 0), sequence)

\* ------------------------------------------------------------------------
\* choreography_structure.py
\* ------------------------------------------------------------------------

DEFAULT_TOTAL_TIME_SECONDS == Ms(117000)
ABSOLUTE_MAX_SECONDS == Ms(117000)

\* next(p for p in poses if p.label == label)
FirstWithLabel(poses, label) ==
  poses[CHOOSE i \in 1..Len(poses) :
          /\ poses[i].label = label
          /\ \A j \in 1..(i - 1) : poses[j].label # label]

mandatory_order ==
  << initial_pose,
     FirstWithLabel(inner_mandatory_poses, "hello"),
     FirstWithLabel(inner_mandatory_poses, "stand_zero"),
     FirstWithLabel(inner_mandatory_poses, "sit"),
     FirstWithLabel(inner_mandatory_poses, "sit_relax"),
     FirstWithLabel(inner_mandatory_poses, "stand"),
     FirstWithLabel(inner_mandatory_poses, "wipe_forehead"),
     final_pose >>

compute_uniform_segment_times(total_time) ==
  LET mand == mandatory_order
      num_segments == Len(mand) - 1
      mandatory_time == total_duration(mand)
      remaining == total_time - mandatory_time
  IN  IF remaining <= 0
        THEN [i \in 1..num_segments |-> 0]
        ELSE [i \in 1..num_segments |-> remaining \div num_segments]

\* ------------------------------------------------------------------------
\* planner.py: required intermediates, logical state
\* ------------------------------------------------------------------------

REQUIRED_INTERMEDIATE_FILE_IDS ==
  << "1-Rotation_handgun_object", "9-Diagonal_left", "10-Diagonal_right",
     "7-Move_forward", "8-Move_backward" >>

\* {p.file_id: p for p in pool}.get(fid): the last pose of the pool with
\* that file_id, or None
ByFileId(pool, fid) ==
  LET hits == {i \in 1..Len(pool) : pool[i].file_id = fid}
  IN  IF hits = {} THEN None
      ELSE Some(pool[CHOOSE i \in hits : \A j \in hits : j <= i])

\* the poses of `ids` (in that order) that the pool resolves
ResolveIds(pool, ids) ==
  LET found == SelectSeq(ids, LAMBDA fid : ByFileId(pool, fid).some)
  IN  [i \in 1..Len(found) |-> ByFileId(pool, found[i]).val]

required_intermediate_poses(pool) ==
  ResolveIds(pool, REQUIRED_INTERMEDIATE_FILE_IDS)

\* variant for C16: the feasibility check counts the whole required list,
\* resolved against the reference catalog
Mutant_required_poses_for_time_check(pool) ==
  mandatory_order
    \o ResolveIds(core_intermediate_poses, REQUIRED_INTERMEDIATE_FILE_IDS)

required_poses_for_time_check(pool) ==
  mandatory_order \o required_intermediate_poses(pool)

apply_pose(state, pose) ==
  [k \in (DOMAIN state) \cup (DOMAIN pose.post) |->
     IF k \in DOMAIN pose.post THEN pose.post[k] ELSE state[k]]

state_satisfies(state, req) ==
  \A k \in DOMAIN req : ~(k \in DOMAIN state /\ state[k] # req[k])

\* ------------------------------------------------------------------------
\* planner.py: the segment planner (breadth-first search)
\* ------------------------------------------------------------------------

MAX_INTERMEDIATES_PER_SEGMENT == 6

\* round(t_used, 2) for the double [t, r]: to the nearest 0.01 s.  Half way
\* between two of them in ticks, the last bits decide, and the even
\* neighbour is taken where the double is the decimal exactly.
Round2(t, r) ==
  LET cs == Ms(10)
      q == t \div cs
      m == t % cs
  IN  IF 2 * m > cs THEN q + 1
      ELSE IF 2 * m < cs THEN q
      ELSE IF r > 0 \/ (r = 0 /\ q % 2 = 1) THEN q + 1
      ELSE q

SegNode(state, t_used, path) == [state |-> state, t_used |-> t_used, path |-> path]

\* the locals of the search loop; `returned` is set by the return inside it
SegLocals0 ==
  [visited |-> {}, best_path |-> None, best_time |-> -1, returned |-> None]

\* variant for C18: a successor is appended whatever its time
Mutant_SegmentVisitAt_NoBudget(node, bits, acc, end_pose, intermediates_pool, time_budget_for_segment, mode) ==
  LET sat == state_satisfies(node.state, end_pose.pre)
      better ==
        /\ sat
        /\ mode = "max"
        /\ \/ node.t_used > acc.best_time
           \/ node.t_used = acc.best_time /\ bits > FloatSum(acc.best_path.val).r
      acc1 == [acc EXCEPT !.best_path = IF better THEN Some(node.path) ELSE @,
                          !.best_time = IF better THEN node.t_used ELSE @]
      key == << node.state, Round2(node.t_used, bits), Len(node.path) >>
      fits(pose) == state_satisfies(node.state, pose.pre)
      next == SelectSeq(intermediates_pool, fits)
      appended ==
        [i \in 1..Len(next) |->
           SegNode(apply_pose(node.state, next[i]),
                   node.t_used + next[i].duration,
                   Append(node.path, next[i]))]
  IN  IF acc.returned.some THEN [acc |-> acc, out |-> << >>]
      ELSE IF sat /\ mode = "min"
        THEN [acc |-> [acc EXCEPT !.returned = Some(node.path)], out |-> << >>]
      ELSE IF Len(node.path) >= MAX_INTERMEDIATES_PER_SEGMENT
        THEN [acc |-> acc1, out |-> << >>]
      ELSE IF key \in acc.visited
        THEN [acc |-> acc1, out |-> << >>]
      ELSE [acc |-> [acc1 EXCEPT !.visited = @ \cup {key}], out |-> appended]

Mutant_SegmentVisit_NoBudget(node, acc, end_pose, intermediates_pool, time_budget_for_segment, mode) ==
  Mutant_SegmentVisitAt_NoBudget(node, FloatSum(node.path).r, acc, end_pose,
                                 intermediates_pool, time_budget_for_segment, mode)

\* One iteration of `while q:` for the dequeued `node`: the new locals and
\* the nodes this iteration appends to the queue.  t_used is in ticks and
\* `bits` are the last bits of that double; the budget is a double [t, r].
SegmentVisitAt(node, bits, acc, end_pose, intermediates_pool, time_budget_for_segment, mode) ==
  LET sat == state_satisfies(node.state, end_pose.pre)
      better ==
        /\ sat
        /\ mode = "max"
        /\ \/ node.t_used > acc.best_time
           \/ node.t_used = acc.best_time /\ bits > FloatSum(acc.best_path.val).r
      acc1 == [acc EXCEPT !.best_path = IF better THEN Some(node.path) ELSE @,
                          !.best_time = IF better THEN node.t_used ELSE @]
      key == << node.state, Round2(node.t_used, bits), Len(node.path) >>
      fits(pose) ==
        /\ state_satisfies(node.state, pose.pre)
        /\ ~(node.t_used + pose.duration > time_budget_for_segment.t + EPS)
        /\ node.t_used + pose.duration = time_budget_for_segment.t + EPS
             => ~ExceedsTolerance(FloatAdd(Double(node.t_used, bits),
                                           FloatOf(pose.duration)),
                                  time_budget_for_segment)
      next == SelectSeq(intermediates_pool, fits)
      appended ==
        [i \in 1..Len(next) |->
           SegNode(apply_pose(node.state, next[i]),
                   node.t_used + next[i].duration,
                   Append(node.path, next[i]))]
  IN  IF acc.returned.some THEN [acc |-> acc, out |-> << >>]
      ELSE IF sat /\ mode = "min"
        THEN [acc |-> [acc EXCEPT !.returned = Some(node.path)], out |-> << >>]
      ELSE IF Len(node.path) >= MAX_INTERMEDIATES_PER_SEGMENT
        THEN [acc |-> acc1, out |-> << >>]
      ELSE IF key \in acc.visited
        THEN [acc |-> acc1, out |-> << >>]
      ELSE [acc |-> [acc1 EXCEPT !.visited = @ \cup {key}], out |-> appended]

\* The last bits of a node's t_used are those of the sum of the path's
\* durations, which the program forms in the same order.
SegmentVisit(node, acc, end_pose, intermediates_pool, time_budget_for_segment, mode) ==
  SegmentVisitAt(node, FloatSum(node.path).r, acc, end_pose, intermediates_pool,
                 time_budget_for_segment, mode)

\* The iterations for the queue entries L[lo..hi], in FIFO order.  The run
\* is split in halves only to keep the evaluation depth logarithmic; the
\* left half is completed before the right half starts.
RECURSIVE SegmentSweep(_, _, _, _, _, _, _, _)
SegmentSweep(L, lo, hi, acc, end_pose, intermediates_pool, time_budget_for_segment, mode) ==
  IF lo = hi
    THEN SegmentVisit(L[lo], acc, end_pose, intermediates_pool,
                      time_budget_for_segment, mode)
    ELSE LET mid == (lo + hi) \div 2
             a == SegmentSweep(L, lo, mid, acc, end_pose, intermediates_pool,
                               time_budget_for_segment, mode)
             b == SegmentSweep(L, mid + 1, hi, a.acc, end_pose, intermediates_pool,
                               time_budget_for_segment, mode)
         IN  IF a.acc.returned.some THEN a
             ELSE [acc |-> b.acc, out |-> a.out \o b.out]

\* `while q:` until the queue is empty.  Every node a sweep appends is one
\* pose longer than the nodes swept, so the queue is the entries of one path
\* length followed by those of the next: r.out is what is left of the queue
\* and r.acc the locals after the iterations made so far.
RECURSIVE SegmentSearch(_, _, _, _, _)
SegmentSearch(r, end_pose, intermediates_pool, time_budget_for_segment, mode) ==
  IF r.out = << >> \/ r.acc.returned.some THEN r.acc
  ELSE SegmentSearch(SegmentSweep(r.out, 1, Len(r.out), r.acc, end_pose,
                                  intermediates_pool, time_budget_for_segment, mode),
                     end_pose, intermediates_pool, time_budget_for_segment, mode)

\* what the search returns once the loop is over with locals acc
SegmentResult(acc, mode) ==
  IF acc.returned.some THEN acc.returned
  ELSE IF mode = "max" THEN acc.best_path
  ELSE None

plan_segment_internal(start_state, end_pose, intermediates_pool, time_budget_for_segment, mode) ==
  IF mode = "min" /\ state_satisfies(start_state, end_pose.pre)
    THEN Some(<< >>)
    ELSE SegmentResult(
           SegmentSearch([acc |-> SegLocals0,
                          out |-> << SegNode(start_state, 0, << >>) >>],
                         end_pose, intermediates_pool, time_budget_for_segment, mode),
           mode)

plan_segment_min(start_state, end_pose, intermediates_pool, time_budget_for_segment) ==
  plan_segment_internal(start_state, end_pose, intermediates_pool,
                        time_budget_for_segment, "min")

\* variant for C24: the longest-path search answers what the shortest-path
\* search answers
Mutant_plan_segment_max(start_state, end_pose, intermediates_pool, time_budget_for_segment) ==
  plan_segment_internal(start_state, end_pose, intermediates_pool,
                        time_budget_for_segment, "min")

plan_segment_max(start_state, end_pose, intermediates_pool, time_budget_for_segment) ==
  plan_segment_internal(start_state, end_pose, intermediates_pool,
                        time_budget_for_segment, "max")

\* ------------------------------------------------------------------------
\* planner.py: the full planner
\* ------------------------------------------------------------------------

\* what a planner call ends in: a ValueError, None, or a list of poses
Raised == [kind |-> "raised", seq |-> << >>]
ReturnedNone == [kind |-> "none", seq |-> << >>]
Returned(seq) == [kind |-> "seq", seq |-> seq]

\* variant for C1 and C8: the cap clamped at 130 s instead of
\* ABSOLUTE_MAX_SECONDS
Mutant_HardCapEffective(song_length_seconds) ==
  Min2(IF song_length_seconds.some THEN song_length_seconds.val
       ELSE DEFAULT_TOTAL_TIME_SECONDS,
       Ms(130000))

\* hard_cap_effective: min(desired_total, ABSOLUTE_MAX_SECONDS)
HardCapEffective(song_length_seconds) ==
  LET desired_total == IF song_length_seconds.some THEN song_length_seconds.val
                       ELSE DEFAULT_TOTAL_TIME_SECONDS
  IN  Min2(desired_total, ABSOLUTE_MAX_SECONDS)

\* hard_cap_raw = hard_cap_effective * speed_factor
HardCapRaw(song_length_seconds, speed_factor) ==
  TimesSpeed(HardCapEffective(song_length_seconds), speed_factor)

\* A song length that is not the double nearest to a decimal of val ticks
\* but the one `ulps` doubles above it (below it, for a negative ulps)
SomeDouble(val, ulps) == [some |-> TRUE, val |-> val, ulps |-> ulps]

\* the double `ulps` doubles above x
Shifted(x, ulps) == Double(x.t, x.r + ulps * Grid(Binade(x.t, x.r, -2)))

\* desired_total as a double: float(song_length_seconds) or the default
DesiredTotal(song_length_seconds) ==
  IF ~song_length_seconds.some THEN FloatOf(DEFAULT_TOTAL_TIME_SECONDS)
  ELSE IF "ulps" \in DOMAIN song_length_seconds
    THEN Shifted(FloatOf(song_length_seconds.val), song_length_seconds.ulps)
  ELSE FloatOf(song_length_seconds.val)

\* The last bits of hard_cap_raw = min(desired_total, ABSOLUTE_MAX_SECONDS)
\* * speed_factor.  At speed factor 1 the product is exact; at another speed
\* factor the double nearest to the product in ticks is taken.
CapBits(desired_total, speed_factor) ==
  IF speed_factor.num # speed_factor.den
    THEN FloatOf(TimesSpeed(Min2(desired_total.t, ABSOLUTE_MAX_SECONDS), speed_factor)).r
  ELSE IF desired_total.t < ABSOLUTE_MAX_SECONDS THEN desired_total.r
  ELSE FloatOf(ABSOLUTE_MAX_SECONDS).r

HardCapRawBits(song_length_seconds, speed_factor) ==
  CapBits(DesiredTotal(song_length_seconds), speed_factor)

\* the last bits of the doubles among the locals
Bits(cap, budget, used) ==
  [hard_cap_raw |-> cap, interm_budget_total |-> budget, interm_budget_used |-> used]

\* The locals of _plan_full_choreography_generic.  status is "running"
\* while the segment loop runs, else the way the call ended; segment_calls
\* counts the invocations of the segment planner (not a program variable).
\* The times are in ticks; bits holds the last bits of three of them.
PlanLocals(status, cap_eff, cap_raw, budget, targets, seq, state, used, idx, calls, bits) ==
  [status |-> status, hard_cap_effective |-> cap_eff, hard_cap_raw |-> cap_raw,
   interm_budget_total |-> budget, segment_targets_raw |-> targets,
   full_sequence |-> seq, current_state |-> state,
   interm_budget_used |-> used, idx |-> idx, segment_calls |-> calls,
   bits |-> bits]

NoLocals ==
  PlanLocals("idle", 0, 0, 0, << >>, << >>, EmptyState, 0, 0, 0, Bits(0, 0, 0))

Ended(loc, status) == [loc EXCEPT !.status = status]

\* the locals when the segment loop is entered; the cap and the budget are
\* doubles
GenericLocals(hard_cap_effective, hard_cap_raw, interm_budget_total, segment_targets_effective, speed_factor) ==
  PlanLocals("running", hard_cap_effective, hard_cap_raw.t, interm_budget_total.t,
             [i \in DOMAIN segment_targets_effective |->
                TimesSpeed(segment_targets_effective[i], speed_factor)],
             << mandatory_order[1] >>, apply_pose(EmptyState, mandatory_order[1]),
             0, 0, 0, Bits(hard_cap_raw.r, interm_budget_total.r, 0))

\* the feasibility check of the required set and the mandatory-only guard
GenericChecked(loc, hard_cap_raw, required_time_raw, mand_time_raw) ==
  IF ExceedsTolerance(required_time_raw, hard_cap_raw) THEN Ended(loc, "none")
  ELSE IF ExceedsTolerance(mand_time_raw, hard_cap_raw) THEN Ended(loc, "none")
  ELSE loc

\* from the caps on: the two checks, interm_budget_total and the soft
\* targets of the segments
GenericBudgeted(hard_cap_effective, hard_cap_raw, required_time_raw, mand_time_raw, speed_factor) ==
  GenericChecked(GenericLocals(hard_cap_effective, hard_cap_raw,
                               FloatSub(hard_cap_raw, mand_time_raw),
                               compute_uniform_segment_times(hard_cap_effective),
                               speed_factor),
                 hard_cap_raw, required_time_raw, mand_time_raw)

\* variant for C6: no feasibility check of the required set (its duration
\* is taken as 0)
Mutant_GenericStart_NoRequiredCheck(song_length_seconds, mode, speed_factor, pool) ==
  IF speed_factor.num <= 0 THEN Ended(NoLocals, "raised")
  ELSE GenericBudgeted(HardCapEffective(song_length_seconds),
                       Double(HardCapRaw(song_length_seconds, speed_factor),
                              HardCapRawBits(song_length_seconds, speed_factor)),
                       Double(0, 0),
                       FloatSum(mandatory_order), speed_factor)

\* variant for C7: only a negative speed factor is refused
Mutant_GenericStart_ZeroSpeed(song_length_seconds, mode, speed_factor, pool) ==
  IF speed_factor.num < 0 THEN Ended(NoLocals, "raised")
  ELSE GenericBudgeted(HardCapEffective(song_length_seconds),
                       Double(HardCapRaw(song_length_seconds, speed_factor),
                              HardCapRawBits(song_length_seconds, speed_factor)),
                       FloatSum(required_poses_for_time_check(pool)),
                       FloatSum(mandatory_order), speed_factor)

\* _plan_full_choreography_generic up to the segment loop
GenericStart(song_length_seconds, mode, speed_factor, pool) ==
  IF speed_factor.num <= 0 THEN Ended(NoLocals, "raised")
  ELSE GenericBudgeted(HardCapEffective(song_length_seconds),
                       Double(HardCapRaw(song_length_seconds, speed_factor),
                              HardCapRawBits(song_length_seconds, speed_factor)),
                       FloatSum(required_poses_for_time_check(pool)),
                       FloatSum(mandatory_order), speed_factor)

\* "min" mode after the first search answered `first`: the retry with the
\* whole remaining budget
MinRelaxed(first, current_state, end_pose, pool, segment_budget, remaining_budget) ==
  IF ~first.some /\ ExceedsTolerance(remaining_budget, segment_budget)
    THEN [seg_interms |-> plan_segment_min(current_state, end_pose, pool,
                                           remaining_budget),
          calls |-> 2]
    ELSE [seg_interms |-> first, calls |-> 1]

\* the segment planner call(s) of one loop iteration: the intermediates
\* found (or None) and the number of searches made; the budgets are doubles
SegmentIntermediates(current_state, end_pose, pool, segment_budget, remaining_budget, mode) ==
  IF mode = "min"
    THEN MinRelaxed(plan_segment_min(current_state, end_pose, pool, segment_budget),
                    current_state, end_pose, pool, segment_budget, remaining_budget)
    ELSE [seg_interms |-> plan_segment_max(current_state, end_pose, pool,
                                           remaining_budget),
          calls |-> 1]

RECURSIVE ApplyAll(_, _)
ApplyAll(state, poses) ==
  IF poses = << >> THEN state ELSE ApplyAll(apply_pose(state, Head(poses)), Tail(poses))

\* the end of a loop iteration, once the segment planner answered `found`
SegmentAppend(loc, end_pose, found) ==
  IF ~found.seg_interms.some
    THEN [Ended(loc, "none") EXCEPT !.segment_calls = @ + found.calls]
    ELSE [loc EXCEPT !.full_sequence = Append(@ \o found.seg_interms.val, end_pose),
                     !.current_state =
                        apply_pose(ApplyAll(@, found.seg_interms.val), end_pose),
                     !.interm_budget_used = @ + total_duration(found.seg_interms.val),
                     !.bits.interm_budget_used =
                        FloatSumFrom(Double(loc.interm_budget_used, @),
                                     found.seg_interms.val).r,
                     !.segment_calls = @ + found.calls,
                     !.idx = @ + 1]

\* x < -1e-6 and x <= 1e-6 for a double x: the double 1e-6 is less than a
\* microsecond by a fraction of a unit
BelowMinusTolerance(x) == x.t < -EPS \/ (x.t = -EPS /\ x.r <= 0)
WithinTolerance(x) == x.t < EPS \/ (x.t = EPS /\ x.r < 0)

\* variant for C3: the branch without a search moves on without appending
\* the mandatory pose
Mutant_SegmentBudgeted(loc, end_pose, remaining_budget, segment_budget, mode, pool) ==
  IF BelowMinusTolerance(remaining_budget) THEN Ended(loc, "none")
  ELSE IF WithinTolerance(segment_budget)
    THEN IF ~state_satisfies(loc.current_state, end_pose.pre)
           THEN Ended(loc, "none")
           ELSE [loc EXCEPT !.current_state = apply_pose(@, end_pose),
                            !.idx = @ + 1]
  ELSE SegmentAppend(loc, end_pose,
                     SegmentIntermediates(loc.current_state, end_pose, pool,
                                          segment_budget, remaining_budget, mode))

\* variant for C21: the segment planner is called whatever the budget
Mutant_SegmentBudgeted_AlwaysSearch(loc, end_pose, remaining_budget, segment_budget, mode, pool) ==
  IF BelowMinusTolerance(remaining_budget) THEN Ended(loc, "none")
  ELSE SegmentAppend(loc, end_pose,
                     SegmentIntermediates(loc.current_state, end_pose, pool,
                                          segment_budget, remaining_budget, mode))

\* a loop iteration from the budget checks on; the two budgets are doubles
SegmentBudgeted(loc, end_pose, remaining_budget, segment_budget, mode, pool) ==
  IF BelowMinusTolerance(remaining_budget) THEN Ended(loc, "none")
  ELSE IF WithinTolerance(segment_budget)
    THEN IF ~state_satisfies(loc.current_state, end_pose.pre)
           THEN Ended(loc, "none")
           ELSE [loc EXCEPT !.full_sequence = Append(@, end_pose),
                            !.current_state = apply_pose(@, end_pose),
                            !.idx = @ + 1]
  ELSE SegmentAppend(loc, end_pose,
                     SegmentIntermediates(loc.current_state, end_pose, pool,
                                          segment_budget, remaining_budget, mode))

\* segment_budget: the soft target if it is positive, never more than what
\* remains.  The soft target is in ticks and is taken as the double nearest
\* to it.
SegmentBudget(soft_target_raw, remaining_budget) ==
  IF soft_target_raw > 0 /\ soft_target_raw < remaining_budget.t
    THEN FloatOf(soft_target_raw)
    ELSE remaining_budget

SoftTarget(loc, remaining_budget) ==
  IF loc.idx < Len(loc.segment_targets_raw)
    THEN loc.segment_targets_raw[loc.idx + 1]
    ELSE remaining_budget

\* remaining_budget = interm_budget_total - interm_budget_used, as a double
Remaining(loc) ==
  FloatSub(Double(loc.interm_budget_total, loc.bits.interm_budget_total),
           Double(loc.interm_budget_used, loc.bits.interm_budget_used))

\* the same in ticks
RemainingBudget(loc) == loc.interm_budget_total - loc.interm_budget_used

\* a loop iteration once remaining_budget is computed
SegmentRemaining(loc, remaining_budget, mode, pool) ==
  SegmentBudgeted(loc, mandatory_order[loc.idx + 2], remaining_budget,
                  SegmentBudget(SoftTarget(loc, remaining_budget.t), remaining_budget),
                  mode, pool)

\* one iteration of `for idx in range(num_segments)`
SegmentIteration(loc, mode, pool) == SegmentRemaining(loc, Remaining(loc), mode, pool)

\* after the loop: the final guard on the total duration
GenericFinish(loc) ==
  LET total_raw == FloatSum(loc.full_sequence)
  IN  IF ExceedsTolerance(total_raw, Double(loc.hard_cap_raw, loc.bits.hard_cap_raw))
        THEN Ended(loc, "none")
      ELSE Ended(loc, "returned")

NumSegments == Len(mandatory_order) - 1

\* one step of a running planner call
GenericStep(loc, mode, pool) ==
  IF loc.idx < NumSegments THEN SegmentIteration(loc, mode, pool)
  ELSE GenericFinish(loc)

RECURSIVE GenericRun(_, _, _)
GenericRun(loc, mode, pool) ==
  IF loc.status # "running" THEN loc
  ELSE GenericRun(GenericStep(loc, mode, pool), mode, pool)

Outcome(loc) ==
  IF loc.status = "raised" THEN Raised
  ELSE IF loc.status = "returned" THEN Returned(loc.full_sequence)
  ELSE ReturnedNone

plan_full_choreography_generic(song_length_seconds, mode, speed_factor, pool) ==
  Outcome(GenericRun(GenericStart(song_length_seconds, mode, speed_factor, pool),
                     mode, pool))

FileIds(seq) == {seq[i].file_id : i \in 1..Len(seq)}

\* variant for C5: the splice is refused as soon as the new total reaches
\* the cap
Mutant_EnforceRequired_AtCap(seq, song_length_seconds, speed_factor, pool) ==
  IF total_duration(seq)
       + total_duration(ResolveIds(pool, SelectSeq(REQUIRED_INTERMEDIATE_FILE_IDS,
                                                   LAMBDA fid : fid \notin FileIds(seq))))
       >= HardCapRaw(song_length_seconds, speed_factor)
    THEN seq
    ELSE SubSeq(seq, 1, Len(seq) - 1)
           \o ResolveIds(pool, SelectSeq(REQUIRED_INTERMEDIATE_FILE_IDS,
                                         LAMBDA fid : fid \notin FileIds(seq)))
           \o SubSeq(seq, Len(seq), Len(seq))

\* variant for C2: the missing required poses are appended after the last
\* pose instead of being inserted before the final pose
Mutant_EnforceRequired(seq, song_length_seconds, speed_factor, pool) ==
  seq \o ResolveIds(pool, SelectSeq(REQUIRED_INTERMEDIATE_FILE_IDS,
                                    LAMBDA fid : fid \notin FileIds(seq)))

\* variant for C22: the missing required poses are inserted in the order of
\* the catalog instead of the order of REQUIRED_INTERMEDIATE_FILE_IDS
Mutant_EnforceRequired_PoolOrder(seq, song_length_seconds, speed_factor, pool) ==
  IF total_duration(seq)
       + total_duration(SelectSeq(pool, LAMBDA p : p.file_id \notin FileIds(seq)
                                    /\ \E i \in DOMAIN REQUIRED_INTERMEDIATE_FILE_IDS :
                                         REQUIRED_INTERMEDIATE_FILE_IDS[i] = p.file_id))
       > HardCapRaw(song_length_seconds, speed_factor) + EPS
    THEN seq
    ELSE SubSeq(seq, 1, Len(seq) - 1)
           \o SelectSeq(pool, LAMBDA p : p.file_id \notin FileIds(seq)
                          /\ \E i \in DOMAIN REQUIRED_INTERMEDIATE_FILE_IDS :
                               REQUIRED_INTERMEDIATE_FILE_IDS[i] = p.file_id)
           \o SubSeq(seq, Len(seq), Len(seq))

\* steps 2 to 5 of plan_full_choreography, for the sequence seq that the
\* generic planner returned in "min" mode
EnforceRequired(seq, song_length_seconds, speed_factor, pool) ==
  LET present_ids == FileIds(seq)
      req_poses == required_intermediate_poses(pool)
      req_ids_in_order == [i \in 1..Len(req_poses) |-> req_poses[i].file_id]
      missing_ids == SelectSeq(req_ids_in_order, LAMBDA fid : fid \notin present_ids)
      missing_poses == ResolveIds(pool, missing_ids)
      hard_cap_raw == Double(HardCapRaw(song_length_seconds, speed_factor),
                             HardCapRawBits(song_length_seconds, speed_factor))
      extra_raw == FloatSum(missing_poses)
      current_raw == FloatSum(seq)
      new_total_raw == FloatAdd(current_raw, extra_raw)
      last_mandatory == mandatory_order[Len(mandatory_order)]
      hits == {i \in 1..Len(seq) : seq[i].file_id = last_mandatory.file_id}
      \* 0-based index of the last occurrence, or len(seq)
      last_idx == IF hits = {} THEN Len(seq)
                  ELSE (CHOOSE i \in hits : \A j \in hits : j <= i) - 1
  IN  IF missing_ids = << >> THEN seq
      ELSE IF missing_poses = << >> THEN seq
      ELSE IF ExceedsTolerance(new_total_raw, hard_cap_raw) THEN seq
      ELSE SubSeq(seq, 1, last_idx) \o missing_poses
             \o SubSeq(seq, last_idx + 1, Len(seq))

\* plan_full_choreography once the generic planner gave `out`
EnforceOutcome(out, song_length_seconds, speed_factor, pool) ==
  IF out.kind = "seq"
    THEN Returned(EnforceRequired(out.seq, song_length_seconds, speed_factor, pool))
    ELSE out

plan_full_choreography(song_length_seconds, speed_factor, pool) ==
  EnforceOutcome(plan_full_choreography_generic(song_length_seconds, "min",
                                                speed_factor, pool),
                 song_length_seconds, speed_factor, pool)

plan_full_choreography_maximal(song_length_seconds, speed_factor, pool) ==
  plan_full_choreography_generic(song_length_seconds, "max", speed_factor, pool)

\* ------------------------------------------------------------------------
\* play_sequence.py: the song-length selector
\* ------------------------------------------------------------------------

MAX_TIME_LIMIT == Ms(117000)

\* total_duration(seq) / speed_factor
EffectiveDuration(seq, speed_factor) == OverSpeed(total_duration(seq), speed_factor)

\* what one call of find_first_path_in_range did: whether the planner was
\* called, with which cap, what it returned (out), the effective duration of
\* a returned sequence, and the candidate handed back (or None)
Try(min_dur, max_dur, cap_hint, planned, cap, out, T_eff, candidate) ==
  [min_dur |-> min_dur, max_dur |-> max_dur, cap_hint |-> cap_hint,
   planned |-> planned, cap |-> cap, out |-> out, T_eff |-> T_eff,
   candidate |-> candidate]

\* find_first_path_in_range once the planner gave the sequence out.seq, of
\* effective duration T_eff
InRange(min_dur, max_dur, cap_hint, cap, out, T_eff) ==
  Try(min_dur, max_dur, cap_hint, TRUE, cap, out, T_eff,
      IF min_dur <= T_eff /\ T_eff <= max_dur + EPS THEN Some(out.seq) ELSE None)

\* find_first_path_in_range once the planner gave `out`
Planned(min_dur, max_dur, cap_hint, cap, out, speed_factor) ==
  IF out.kind # "seq"
    THEN Try(min_dur, max_dur, cap_hint, TRUE, cap, out, 0, None)
    ELSE InRange(min_dur, max_dur, cap_hint, cap, out,
                 EffectiveDuration(out.seq, speed_factor))

find_first_path_in_range(min_dur, max_dur, cap_hint, speed_factor, pool) ==
  IF cap_hint <= 0
    THEN Try(min_dur, max_dur, cap_hint, FALSE, 0, ReturnedNone, 0, None)
    ELSE Planned(min_dur, max_dur, cap_hint, Min2(cap_hint, MAX_TIME_LIMIT),
                 plan_full_choreography_maximal(Some(Min2(cap_hint, MAX_TIME_LIMIT)),
                                                speed_factor, pool),
                 speed_factor)

\* variant for C11: the close window only takes a candidate that lasts at
\* least as long as the song
Mutant_Windows_Exact ==
  << [name |-> "close", lo |-> 10, hi |-> 10],
     [name |-> "mid", lo |-> 7, hi |-> 9],
     [name |-> "far", lo |-> 5, hi |-> 7],
     [name |-> "any", lo |-> 0, hi |-> 5] >>

\* variant for C10: the mid window is tried before the close window
Mutant_Windows ==
  << [name |-> "mid", lo |-> 7, hi |-> 9],
     [name |-> "close", lo |-> 9, hi |-> 10],
     [name |-> "far", lo |-> 5, hi |-> 7],
     [name |-> "any", lo |-> 0, hi |-> 5] >>

\* the four windows of find_best_path_for_duration, in the order tried;
\* lo and hi are tenths of the duration S
Windows ==
  << [name |-> "close", lo |-> 9, hi |-> 10],
     [name |-> "mid", lo |-> 7, hi |-> 9],
     [name |-> "far", lo |-> 5, hi |-> 7],
     [name |-> "any", lo |-> 0, hi |-> 5] >>

Tenths(S, n) == MulDiv(S, n, 10)

\* the find_first_path_in_range call of window w for duration S
WindowAttempt(w, S, speed_factor, pool) ==
  [window |-> Windows[w].name]
    @@ find_first_path_in_range(Tenths(S, Windows[w].lo), Tenths(S, Windows[w].hi),
                                Tenths(S, Windows[w].hi), speed_factor, pool)

Abs(v) == IF v < 0 THEN -v ELSE v

\* variant for C9: no swap of an inverted pair
Mutant_ChooseBranch(t_min_seq, t_max_seq, song_length, speed_factor) ==
  LET t_min_eff == EffectiveDuration(t_min_seq, speed_factor)
      t_max_eff == EffectiveDuration(t_max_seq, speed_factor)
      t_song == IF song_length.some THEN song_length.val ELSE 0
      Sel(branch) ==
        [branch |-> branch, swapped |-> FALSE,
         t_min_eff |-> t_min_eff, t_max_eff |-> t_max_eff,
         t_min_seq |-> t_min_seq, t_max_seq |-> t_max_seq, t_song |-> t_song]
  IN  IF ~song_length.some THEN Sel("no_song")
      ELSE IF t_min_eff - EPS <= t_song /\ t_song <= t_max_eff + EPS THEN Sel("inside")
      ELSE IF t_song > t_max_eff + EPS THEN Sel("above")
      ELSE Sel("below")

\* choose_sequence_for_song up to its decision: the effective durations and
\* the two sequences after the swap guard, and the branch taken
ChooseBranch(t_min_seq, t_max_seq, song_length, speed_factor) ==
  LET min0 == EffectiveDuration(t_min_seq, speed_factor)
      max0 == EffectiveDuration(t_max_seq, speed_factor)
      swap == max0 < min0
      t_min_eff == IF swap THEN max0 ELSE min0
      t_max_eff == IF swap THEN min0 ELSE max0
      lo_seq == IF swap THEN t_max_seq ELSE t_min_seq
      hi_seq == IF swap THEN t_min_seq ELSE t_max_seq
      t_song == IF song_length.some THEN song_length.val ELSE 0
      Sel(branch, lo, hi) ==
        [branch |-> branch, swapped |-> swap /\ song_length.some,
         t_min_eff |-> t_min_eff, t_max_eff |-> t_max_eff,
         t_min_seq |-> lo, t_max_seq |-> hi, t_song |-> t_song]
  IN  IF ~song_length.some THEN Sel("no_song", t_min_seq, t_max_seq)
      ELSE IF t_min_eff - EPS <= t_song /\ t_song <= t_max_eff + EPS
        THEN Sel("inside", lo_seq, hi_seq)
      ELSE IF t_song > t_max_eff + EPS THEN Sel("above", lo_seq, hi_seq)
      ELSE Sel("below", lo_seq, hi_seq)

\* the nearest feasible edge, taken when find_best_path_for_duration fails
NearestEdge(sel) ==
  IF Abs(sel.t_song - sel.t_min_eff) <= Abs(sel.t_song - sel.t_max_eff)
    THEN sel.t_min_seq ELSE sel.t_max_seq

NoSelection ==
  [branch |-> "none", swapped |-> FALSE, t_min_eff |-> 0, t_max_eff |-> 0,
   t_min_seq |-> << >>, t_max_seq |-> << >>, t_song |-> 0]

\* ------------------------------------------------------------------------
\* The program as a state machine
\* ------------------------------------------------------------------------

VARIABLES
  speed_factor,  \* --speed-factor / the speed_factor argument
  pool,          \* the intermediate catalog, all_intermediate_poses()
  pc,            \* where the program is
  call,          \* the planner call in progress or last ended
  loc,           \* the locals of _plan_full_choreography_generic
  result,        \* what the last ended planner call gave back
  t_min_seq,     \* main: the baseline sequence
  t_max_seq,     \* main: the maximal sequence
  sel,           \* the locals of choose_sequence_for_song
  window,        \* find_best_path_for_duration: the next window to try
  attempts,      \* the find_first_path_in_range calls made so far
  sequence,      \* the sequence choose_sequence_for_song returned
  seg            \* a call of the segment planner: its arguments and locals

vars == << speed_factor, pool, pc, call, loc, result, t_min_seq, t_max_seq,
           sel, window, attempts, sequence, seg >>

Ratio(n, d) == [num |-> n, den |-> d]

\* the speed factors explored
SpeedFactors == {Ratio(-1, 1), Ratio(0, 1), Ratio(1, 2), Ratio(1, 1), Ratio(5, 4)}

RequiredTimeRaw == total_duration(required_poses_for_time_check(all_intermediate_poses))

\* the song_length_seconds arguments explored in direct planner calls: no
\* target, targets around the feasibility threshold, two targets 1e-6 s
\* short of a duration that poses add up to (112.771999 s and 116.340999 s),
\* and targets at and above the absolute maximum
Targets ==
  {None, Some(Ms(50000)), Some(Ms(100000)), Some(RequiredTimeRaw - 2 * EPS),
   Some(RequiredTimeRaw - EPS), Some(RequiredTimeRaw), Some(Ms(112772) - EPS),
   Some(Ms(115000)), Some(Ms(116341) - EPS), Some(Ms(117000)), Some(Ms(200000))}

\* the shortest song length that passes the feasibility check of the
\* required set at speed factor 1: the double below the decimal that is
\* 1e-6 s less than the duration of the required set; with it,
\* hard_cap_raw + 1e-6 evaluates to the very double that
\* total_duration(required_for_check) gives
ShortestFeasibleSong(catalog) ==
  SomeDouble(total_duration(required_poses_for_time_check(catalog)) - EPS, -1)

\* at speed factors above 1, direct maximal-mode calls are explored for
\* targets of at most this many seconds
MaxFastTargetSeconds == 100

Pending == [kind |-> "pending", seq |-> << >>]
NoCall == [caller |-> "none", mode |-> "min", song_length_seconds |-> None]
Call(caller, mode, song_length_seconds) ==
  [caller |-> caller, mode |-> mode, song_length_seconds |-> song_length_seconds]

\* no segment planner call under study
NoSegment ==
  [pc |-> "none", start_state |-> EmptyState, end_pose |-> initial_pose,
   intermediates_pool |-> << >>, time_budget_for_segment |-> 0, mode |-> "min",
   q |-> << >>, acc |-> SegLocals0, result |-> None]

\* the state at the start of the program, for a set of speed factors
InitFor(speeds) ==
  /\ seg = NoSegment
  /\ speed_factor \in speeds
  /\ pool \in {all_intermediate_poses}
  /\ pc = "start"
  /\ call = NoCall
  /\ loc = NoLocals
  /\ result = Pending
  /\ t_min_seq = None
  /\ t_max_seq = None
  /\ sel = NoSelection
  /\ window = 0
  /\ attempts = << >>
  /\ sequence = None

Init == InitFor(SpeedFactors)

\* the same with two speed factors added: 2, at which the maximal planner
\* places intermediates in several segments, and 0.965, at which the cap
\* leaves 0.21 s beyond the mandatory and the required poses
FastSpeedFactors == SpeedFactors \cup {Ratio(2, 1), Ratio(193, 200)}

InitFast == InitFor(FastSpeedFactors)

\* entering plan_full_choreography / plan_full_choreography_maximal: the
\* generic planner runs up to its segment loop, or ends at once
Enter(c) ==
  \E l \in {GenericStart(c.song_length_seconds, c.mode, speed_factor, pool)} :
      /\ call' = c
      /\ loc' = l
      /\ pc' = IF l.status = "running" THEN "planning" ELSE "call_done"
      /\ result' = IF l.status = "running" THEN Pending ELSE Outcome(l)

\* a caller invokes one of the two planners with a target of its choice
DirectCall ==
  /\ pc = "start"
  /\ \E mode \in {"min", "max"}, target \in Targets \cup {ShortestFeasibleSong(pool)} :
       /\ mode = "max" /\ speed_factor.num > speed_factor.den =>
            target.some /\ target.val <= Ms(1000 * MaxFastTargetSeconds)
       /\ "ulps" \in DOMAIN target => mode = "min" /\ speed_factor = Ratio(1, 1)
       /\ Enter(Call("direct", mode, target))
  /\ UNCHANGED << seg, speed_factor, pool, t_min_seq, t_max_seq, sel, window,
                  attempts, sequence >>

\* main: t_min_seq = plan_full_choreography(None, speed_factor)
MainPlanMin ==
  /\ pc = "start"
  /\ Enter(Call("main", "min", None))
  /\ UNCHANGED << seg, speed_factor, pool, t_min_seq, t_max_seq, sel, window,
                  attempts, sequence >>

\* one iteration of the segment loop, or the final guard after it
PlanStep ==
  /\ pc = "planning"
  /\ \E l \in {GenericStep(loc, call.mode, pool)} :
         /\ loc' = l
         /\ pc' = IF l.status = "running" THEN "planning"
                  ELSE IF l.status = "returned" /\ call.mode = "min" THEN "enforcing"
                  ELSE "call_done"
         /\ result' = IF l.status = "running" \/ (l.status = "returned" /\ call.mode = "min")
                        THEN Pending ELSE Outcome(l)
  /\ UNCHANGED << seg, speed_factor, pool, call, t_min_seq, t_max_seq, sel, window,
                  attempts, sequence >>

\* plan_full_choreography after the generic planner returned a sequence
Enforce ==
  /\ pc = "enforcing"
  /\ result' = Returned(EnforceRequired(loc.full_sequence, call.song_length_seconds,
                                        speed_factor, pool))
  /\ pc' = "call_done"
  /\ UNCHANGED << seg, speed_factor, pool, call, loc, t_min_seq, t_max_seq, sel,
                  window, attempts, sequence >>

\* main: the baseline failed (sys.exit(1)), or the planner raised
MainAbort ==
  /\ pc = "call_done"
  /\ call.caller = "main"
  /\ call.mode = "min"
  /\ result.kind # "seq"
  /\ pc' = IF result.kind = "raised" THEN "crashed" ELSE "aborted"
  /\ UNCHANGED << seg, speed_factor, pool, call, loc, result, t_min_seq, t_max_seq,
                  sel, window, attempts, sequence >>

\* main: t_max_seq = plan_full_choreography_maximal(MAX_TIME_LIMIT, speed_factor)
MainPlanMax ==
  /\ pc = "call_done"
  /\ call.caller = "main"
  /\ call.mode = "min"
  /\ result.kind = "seq"
  /\ t_min_seq' = Some(result.seq)
  /\ Enter(Call("main", "max", Some(MAX_TIME_LIMIT)))
  /\ UNCHANGED << seg, speed_factor, pool, t_max_seq, sel, window, attempts, sequence >>

\* main: keep the maximal sequence, or the baseline when there is none
MainKeepMax ==
  /\ pc = "call_done"
  /\ call.caller = "main"
  /\ call.mode = "max"
  /\ t_max_seq' = IF result.kind = "seq" THEN Some(result.seq) ELSE t_min_seq
  /\ pc' = "choose"
  /\ UNCHANGED << seg, speed_factor, pool, call, loc, result, t_min_seq, sel, window,
                  attempts, sequence >>

\* the song lengths explored, for sequences of effective durations lo <= hi:
\* no song, fixed lengths, and the lengths around the two ends of the band
SongLengths(lo, hi) ==
  {None, Some(Ms(80000)), Some(Ms(100000)), Some(Ms(112772) - EPS),
   Some(Ms(115000)), Some(Ms(120000)),
   Some(lo - 2 * EPS), Some(lo - EPS), Some(lo), Some(hi), Some(hi + EPS),
   Some(hi + 2 * EPS)}

SongChoices ==
  LET a == EffectiveDuration(t_min_seq.val, speed_factor)
      b == EffectiveDuration(t_max_seq.val, speed_factor)
  IN  SongLengths(Min2(a, b), IF a < b THEN b ELSE a)

\* choose_sequence_for_song(a, b, song_length, speed_factor) up to the call
\* of find_best_path_for_duration
Choose(a, b, song_length) ==
  \E s \in {ChooseBranch(a, b, song_length, speed_factor)} :
      /\ sel' = s
      /\ pc' = IF s.branch = "inside" THEN "find_best" ELSE "done"
      /\ window' = IF s.branch = "inside" THEN 1 ELSE window
      /\ sequence' = IF s.branch = "inside" THEN sequence
                     ELSE IF s.branch = "above" THEN Some(s.t_max_seq)
                     ELSE Some(s.t_min_seq)

\* main: sequence = choose_sequence_for_song(t_min_seq, t_max_seq, t_song, speed_factor)
MainChoose ==
  /\ pc = "choose"
  /\ \E song_length \in SongChoices : Choose(t_min_seq.val, t_max_seq.val, song_length)
  /\ UNCHANGED << seg, speed_factor, pool, call, loc, result, t_min_seq, t_max_seq,
                  attempts >>

\* a caller passes the two sequences to choose_sequence_for_song in the
\* other order
ChooseReversed ==
  /\ pc = "choose"
  /\ \E song_length \in SongChoices : Choose(t_max_seq.val, t_min_seq.val, song_length)
  /\ UNCHANGED << seg, speed_factor, pool, call, loc, result, t_min_seq, t_max_seq,
                  attempts >>

\* find_best_path_for_duration: the find_first_path_in_range call of the
\* next window, and the return of its candidate if there is one
TryWindow ==
  /\ pc = "find_best"
  /\ \E a \in {WindowAttempt(window, sel.t_song, speed_factor, pool)} :
         /\ attempts' = Append(attempts, a)
         /\ sequence' = a.candidate
         /\ pc' = IF a.candidate.some THEN "done"
                  ELSE IF window < Len(Windows) THEN "find_best"
                  ELSE "find_failed"
         /\ window' = IF ~a.candidate.some /\ window < Len(Windows)
                        THEN window + 1 ELSE window
  /\ UNCHANGED << seg, speed_factor, pool, call, loc, result, t_min_seq, t_max_seq, sel >>

\* choose_sequence_for_song: find_best_path_for_duration returned None
Fallback ==
  /\ pc = "find_failed"
  /\ sequence' = Some(NearestEdge(sel))
  /\ pc' = "done"
  /\ UNCHANGED << seg, speed_factor, pool, call, loc, result, t_min_seq, t_max_seq,
                  sel, window, attempts >>

Next ==
  \/ DirectCall
  \/ MainPlanMin
  \/ PlanStep
  \/ Enforce
  \/ MainAbort
  \/ MainPlanMax
  \/ MainKeepMax
  \/ MainChoose
  \/ ChooseReversed
  \/ TryWindow
  \/ Fallback

Spec == Init /\ [][Next]_vars

SpecFast == InitFast /\ [][Next]_vars

\* the catalog with the entry of one file id taken out
WithoutFileId(poses, fid) == SelectSeq(poses, LAMBDA p : p.file_id # fid)

\* the catalogs in which one required intermediate is absent
ReducedPools ==
  {WithoutFileId(all_intermediate_poses, REQUIRED_INTERMEDIATE_FILE_IDS[i]) :
     i \in DOMAIN REQUIRED_INTERMEDIATE_FILE_IDS}

\* the speed factors explored with such a catalog
ReducedSpeedFactors == {Ratio(1, 2), Ratio(1, 1), Ratio(5, 4)}

\* the start of the program with one required intermediate absent from
\* all_intermediate_poses()
InitReduced ==
  /\ seg = NoSegment
  /\ speed_factor \in ReducedSpeedFactors
  /\ pool \in ReducedPools
  /\ pc = "start"
  /\ call = NoCall
  /\ loc = NoLocals
  /\ result = Pending
  /\ t_min_seq = None
  /\ t_max_seq = None
  /\ sel = NoSelection
  /\ window = 0
  /\ attempts = << >>
  /\ sequence = None

SpecReduced == InitReduced /\ [][Next]_vars

\* ------------------------------------------------------------------------
\* The segment planner called on its own, one loop iteration at a time
\* ------------------------------------------------------------------------

\* poses of a caller's catalog whose effects go beyond the key "standing":
\* two ways of getting ready that differ by 8 ms, a detour in two steps, and
\* the pose that needs readiness and leaves the robot not standing
POSE_PREPARE_SLOW ==
  Pose("prepare_slow", "T1-Prepare_slow", 1004, Standing, [ready |-> TRUE])
POSE_PREPARE_FAST ==
  Pose("prepare_fast", "T2-Prepare_fast", 996, Standing, [ready |-> TRUE])
POSE_KNEEL ==
  Pose("kneel", "T3-Kneel", 1000, [standing |-> TRUE, ready |-> TRUE], NotStanding)
POSE_DETOUR_IN ==
  Pose("detour_in", "T4-Detour_in", 500, Standing, [mid |-> TRUE])
POSE_DETOUR_OUT ==
  Pose("detour_out", "T5-Detour_out", 500, [standing |-> TRUE, mid |-> TRUE],
       [ready |-> TRUE])

\* the arguments explored: intermediates_pool, start_state, end_pose,
\* time_budget_for_segment and mode
SegmentPools ==
  { << POSE_DIAGONAL_LEFT, POSE_DIAGONAL_RIGHT >>,
    << POSE_PREPARE_SLOW, POSE_PREPARE_FAST, POSE_KNEEL >>,
    << POSE_PREPARE_SLOW, POSE_PREPARE_FAST, POSE_KNEEL, POSE_DETOUR_IN,
       POSE_DETOUR_OUT >> }

SegmentStartStates ==
  { Standing, [standing |-> TRUE, ready |-> FALSE, mid |-> FALSE] }

SegmentEndPoses == { POSE_HELLO, POSE_SIT_RELAX }

SegmentBudgets == { Ms(2000), Ms(3000), Ms(21556), Ms(40000) }

SegmentModes == { "min", "max" }

\* a caller is about to invoke _plan_segment_internal
InitSegment ==
  /\ speed_factor = Ratio(1, 1)
  /\ pool = all_intermediate_poses
  /\ pc = "segment"
  /\ call = NoCall
  /\ loc = NoLocals
  /\ result = Pending
  /\ t_min_seq = None
  /\ t_max_seq = None
  /\ sel = NoSelection
  /\ window = 0
  /\ attempts = << >>
  /\ sequence = None
  /\ \E start_state \in SegmentStartStates, end_pose \in SegmentEndPoses,
        intermediates_pool \in SegmentPools,
        time_budget_for_segment \in SegmentBudgets, mode \in SegmentModes :
       seg = [NoSegment EXCEPT !.pc = "call",
                               !.start_state = start_state,
                               !.end_pose = end_pose,
                               !.intermediates_pool = intermediates_pool,
                               !.time_budget_for_segment = time_budget_for_segment,
                               !.mode = mode]

\* _plan_segment_internal up to `while q`: the bail-out of "min" mode, or
\* the queue holding the start node
SegmentCall ==
  /\ seg.pc = "call"
  /\ seg' = IF seg.mode = "min" /\ state_satisfies(seg.start_state, seg.end_pose.pre)
              THEN [seg EXCEPT !.pc = "returned", !.result = Some(<< >>)]
              ELSE [seg EXCEPT !.pc = "loop",
                               !.q = << SegNode(seg.start_state, 0, << >>) >>,
                               !.acc = SegLocals0]
  /\ UNCHANGED << speed_factor, pool, pc, call, loc, result, t_min_seq,
                  t_max_seq, sel, window, attempts, sequence >>

\* variant for C17: the node is read with q[0] and stays in the queue
Mutant_SegmentIterate ==
  /\ seg.pc = "loop"
  /\ seg.q # << >>
  /\ \E r \in {SegmentVisit(Head(seg.q), seg.acc, seg.end_pose, seg.intermediates_pool,
                             FloatOf(seg.time_budget_for_segment), seg.mode)} :
       seg' = IF r.acc.returned.some
                THEN [seg EXCEPT !.pc = "returned", !.acc = r.acc,
                                 !.result = r.acc.returned]
                ELSE [seg EXCEPT !.q = @ \o r.out, !.acc = r.acc]
  /\ UNCHANGED << speed_factor, pool, pc, call, loc, result, t_min_seq,
                  t_max_seq, sel, window, attempts, sequence >>

\* one iteration of `while q`: q.popleft(), the checks on the node, and the
\* appends of its successors; or the return from inside the loop
SegmentIterate ==
  /\ seg.pc = "loop"
  /\ seg.q # << >>
  /\ \E r \in {SegmentVisit(Head(seg.q), seg.acc, seg.end_pose, seg.intermediates_pool,
                             FloatOf(seg.time_budget_for_segment), seg.mode)} :
       seg' = IF r.acc.returned.some
                THEN [seg EXCEPT !.pc = "returned", !.q = Tail(@), !.acc = r.acc,
                                 !.result = r.acc.returned]
                ELSE [seg EXCEPT !.q = Tail(@) \o r.out, !.acc = r.acc]
  /\ UNCHANGED << speed_factor, pool, pc, call, loc, result, t_min_seq,
                  t_max_seq, sel, window, attempts, sequence >>

\* the queue is empty: the return after the loop
SegmentExhausted ==
  /\ seg.pc = "loop"
  /\ seg.q = << >>
  /\ seg' = [seg EXCEPT !.pc = "returned", !.result = SegmentResult(seg.acc, seg.mode)]
  /\ UNCHANGED << speed_factor, pool, pc, call, loc, result, t_min_seq,
                  t_max_seq, sel, window, attempts, sequence >>

NextSegment ==
  \/ SegmentCall
  \/ SegmentIterate
  \/ SegmentExhausted

SpecSegment == InitSegment /\ [][NextSegment]_vars

\* The program and the segment planner together; a segment planner call,
\* once started, keeps executing (it is single-threaded and waits for
\* nothing) until it returns.
InitAll == Init \/ InitSegment

NextAll == Next \/ NextSegment

SpecFair == InitAll /\ [][NextAll]_vars /\ WF_vars(NextSegment)

\* ------------------------------------------------------------------------
\* Properties
\* ------------------------------------------------------------------------

\* the planner returns visible in a state: the call that just ended, and the
\* calls the window search made
PlannerReturns ==
  (IF pc = "call_done" /\ result.kind = "seq"
     THEN {[mode |-> call.mode, target |-> call.song_length_seconds,
            seq |-> result.seq]}
     ELSE {})
  \cup {[mode |-> "max", target |-> Some(attempts[i].cap), seq |-> attempts[i].out.seq] :
          i \in {j \in 1..Len(attempts) :
                   attempts[j].planned /\ attempts[j].out.kind = "seq"}}

\* the choreographies handed to a caller: by a planner, or by
\* choose_sequence_for_song
ReturnedChoreographies ==
  {r.seq : r \in PlannerReturns} \cup (IF sequence.some THEN {sequence.val} ELSE {})

\* min(target or 117 s, 117 s) * speed_factor, the raw cap of a planner call
RawCapOf(target) ==
  TimesSpeed(Min2(IF target.some THEN target.val ELSE Ms(117000), Ms(117000)),
             speed_factor)

\* C1: every sequence a planner returns (the minimal planner's after the
\* splice of the required poses, and the maximal planner's) has a total raw
\* duration of at most min(target or 117 s, 117 s) * speed_factor, up to the
\* tolerance 1e-6 s; its effective duration never exceeds 117 s.
C1_CapRespected ==
  \A r \in PlannerReturns :
    /\ total_duration(r.seq) <= RawCapOf(r.target) + EPS
    /\ EffectiveDuration(r.seq, speed_factor) <= Ms(117000)

\* the minimal planner returned a spliced sequence that uses the tolerance:
\* its raw duration is the cap plus 1e-6 s
C1_Witness_SplicedAtCapEdge ==
  /\ pc = "call_done"
  /\ call.mode = "min"
  /\ result.kind = "seq"
  /\ Len(result.seq) > Len(mandatory_order)
  /\ total_duration(result.seq) = loc.hard_cap_raw + EPS

\* the state after performing seq[1..n] from the empty state
RECURSIVE StateAfter(_, _)
StateAfter(seq, n) ==
  IF n = 0 THEN EmptyState ELSE apply_pose(StateAfter(seq, n - 1), seq[n])

\* C2: in every returned choreography p, the state folded from the posts of
\* p[0..i] satisfies the precondition of p[i+1], for every i.
C2_PreconditionsChain ==
  \A seq \in ReturnedChoreographies :
    \A i \in 1..(Len(seq) - 1) :
      state_satisfies(StateAfter(seq, i), seq[i + 1].pre)

\* the maximal planner returned a sequence with intermediates both before
\* and after the mandatory pose Hello: two segments were filled by a search
C2_Witness_TwoSegmentsFilled ==
  /\ pc = "call_done"
  /\ call.mode = "max"
  /\ result.kind = "seq"
  /\ \E h \in 1..Len(result.seq) :
       /\ result.seq[h] = POSE_HELLO
       /\ \E i \in 1..(h - 1) : \E k \in 1..Len(pool) : result.seq[i] = pool[k]
       /\ \E j \in (h + 1)..Len(result.seq) : \E k \in 1..Len(pool) :
            result.seq[j] = pool[k]

\* m[k..] is a subsequence of s[j..]
RECURSIVE SubsequenceFrom(_, _, _, _)
SubsequenceFrom(m, k, s, j) ==
  IF k > Len(m) THEN TRUE
  ELSE IF j > Len(s) THEN FALSE
  ELSE IF s[j] = m[k] THEN SubsequenceFrom(m, k + 1, s, j + 1)
  ELSE SubsequenceFrom(m, k, s, j + 1)

\* C3: every returned choreography starts with the initial pose, ends with
\* the final pose, and contains the eight poses of mandatory_order() as a
\* subsequence, in that order.
C3_MandatoryBackbone ==
  \A seq \in ReturnedChoreographies :
    /\ Len(seq) >= 2
    /\ seq[1] = initial_pose
    /\ seq[Len(seq)] = final_pose
    /\ SubsequenceFrom(mandatory_order, 1, seq, 1)

\* the maximal planner returned a sequence whose first segment used up the
\* whole intermediate budget, so that later mandatory poses were appended
\* without a search
C3_Witness_BudgetUsedUp ==
  /\ pc = "call_done"
  /\ call.mode = "max"
  /\ result.kind = "seq"
  /\ loc.interm_budget_used = loc.interm_budget_total
  /\ loc.segment_calls < NumSegments
  /\ Len(result.seq) > Len(mandatory_order)

RequiredIds ==
  {REQUIRED_INTERMEDIATE_FILE_IDS[i] : i \in DOMAIN REQUIRED_INTERMEDIATE_FILE_IDS}

\* C4: every sequence plan_full_choreography_maximal returns, and so every
\* final choice of choose_sequence_for_song, contains each of the five
\* required intermediate file ids at least once.
C4_MaximalContainsRequired ==
  /\ \A r \in PlannerReturns : r.mode = "max" => RequiredIds \subseteq FileIds(r.seq)
  /\ pc = "done" /\ sequence.some => RequiredIds \subseteq FileIds(sequence.val)

\* C5: when the feasibility check passes and plan_full_choreography returns
\* a sequence, that sequence contains all five required intermediate ids.
C5_MinimalContainsRequired ==
  pc = "call_done" /\ call.mode = "min" /\ result.kind = "seq"
    => RequiredIds \subseteq FileIds(result.seq)

\* plan_full_choreography returned a sequence holding the five required ids
\* none of which the generic planner had placed
C5_Witness_AllFiveSpliced ==
  /\ pc = "call_done"
  /\ call.mode = "min"
  /\ result.kind = "seq"
  /\ RequiredIds \cap FileIds(loc.full_sequence) = {}
  /\ RequiredIds \subseteq FileIds(result.seq)
  /\ total_duration(result.seq) = loc.hard_cap_raw

\* C6: if the durations of the mandatory and the required poses sum to more
\* than rawCap + 1e-6, both planners return None: no segment search is run,
\* no partial sequence is returned and no exception is raised.
C6_InfeasibleReturnsNone ==
  /\ pc = "call_done" /\ speed_factor.num > 0
       /\ RequiredTimeRaw > RawCapOf(call.song_length_seconds) + EPS
       => /\ result = ReturnedNone
          /\ loc.status = "none"
          /\ loc.idx = 0
          /\ loc.segment_calls = 0
  /\ \A i \in 1..Len(attempts) :
       attempts[i].planned /\ RequiredTimeRaw > RawCapOf(Some(attempts[i].cap)) + EPS
         => attempts[i].out = ReturnedNone

\* the maximal planner returned None although the mandatory poses alone
\* fit under the cap
C6_Witness_BackboneFitsRequiredDoesNot ==
  /\ pc = "call_done"
  /\ call.mode = "max"
  /\ speed_factor.num > 0
  /\ RequiredTimeRaw > RawCapOf(call.song_length_seconds) + EPS
  /\ total_duration(mandatory_order) <= RawCapOf(call.song_length_seconds)
  /\ result = ReturnedNone

\* C7: with speedFactor <= 0 either planner raises ValueError, for every
\* target, before a cap is computed or a segment planned; it returns neither
\* a sequence nor None.
C7_NonPositiveSpeedRaises ==
  speed_factor.num <= 0
    => /\ pc \in {"start", "call_done", "crashed"}
       /\ pc # "start"
            => /\ result = Raised
               /\ loc = Ended(NoLocals, "raised")

\* a planner call with speed factor 0 and a numeric target ended in the
\* ValueError
C7_Witness_ZeroSpeedRaised ==
  /\ pc = "call_done"
  /\ speed_factor.num = 0
  /\ call.song_length_seconds.some
  /\ result = Raised

\* C8: for a positive speed factor and either mode, a target of 117 s or
\* more gives exactly the sequence that no target gives.
C8_TargetClamped ==
  pc = "call_done" /\ speed_factor.num > 0 /\ call.song_length_seconds.some
    /\ call.song_length_seconds.val >= Ms(117000)
    => result = IF call.mode = "min"
                  THEN plan_full_choreography(None, speed_factor, pool)
                  ELSE plan_full_choreography_maximal(None, speed_factor, pool)

\* the maximal planner returned a sequence for a target of 200 s
C8_Witness_Target200 ==
  /\ pc = "call_done"
  /\ call.mode = "max"
  /\ call.song_length_seconds = Some(Ms(200000))
  /\ result.kind = "seq"

\* the sequences among the two passed to choose_sequence_for_song whose
\* effective duration is the larger (the smaller) of the two
LongerOfTheTwo ==
  LET a == EffectiveDuration(t_min_seq.val, speed_factor)
      b == EffectiveDuration(t_max_seq.val, speed_factor)
  IN  (IF a >= b THEN {t_min_seq.val} ELSE {}) \cup (IF b >= a THEN {t_max_seq.val} ELSE {})

ShorterOfTheTwo ==
  LET a == EffectiveDuration(t_min_seq.val, speed_factor)
      b == EffectiveDuration(t_max_seq.val, speed_factor)
  IN  (IF a <= b THEN {t_min_seq.val} ELSE {}) \cup (IF b <= a THEN {t_max_seq.val} ELSE {})

C10_WindowsInOrder ==
  /\ Len(attempts) <= 4
  /\ \A i \in 1..Len(attempts) :
       LET a == attempts[i]
       IN  /\ a.window = << "close", "mid", "far", "any" >>[i]
           /\ a.min_dur = MulDiv(sel.t_song, << 9, 7, 5, 0 >>[i], 10)
           /\ a.max_dur = MulDiv(sel.t_song, << 10, 9, 7, 5 >>[i], 10)
           /\ a.planned
           /\ a.cap = Min2(a.max_dur, Ms(117000))
           /\ a.out.kind = "seq" => a.T_eff = EffectiveDuration(a.out.seq, speed_factor)
           /\ a.candidate.some
                <=> /\ a.out.kind = "seq"
                    /\ a.min_dur <= a.T_eff
                    /\ a.T_eff <= a.max_dur + EPS
           /\ a.candidate.some => a.candidate.val = a.out.seq
           /\ i < Len(attempts) => ~a.candidate.some
  /\ pc = "find_best" => window = Len(attempts) + 1
  /\ attempts # << >> /\ attempts[Len(attempts)].candidate.some
       => pc = "done" /\ sequence = attempts[Len(attempts)].candidate

\* the close window's candidate was accepted and returned: a maximal plan
\* for the cap S whose effective duration lies in [0.9 S, S]
C10_Witness_CloseAccepted ==
  /\ pc = "done"
  /\ Len(attempts) = 1
  /\ attempts[1].window = "close"
  /\ attempts[1].cap = sel.t_song
  /\ attempts[1].candidate = sequence
  /\ sequence.some
  /\ EffectiveDuration(sequence.val, speed_factor) < sel.t_song
  /\ speed_factor.num > speed_factor.den

\* C11: when the song length S lies within [t_min, t_max], the effective
\* durations of the two sequences main planned, one of the four windows gives
\* a candidate: find_best_path_for_duration does not return None, the
\* nearest-edge fallback is not taken, and the sequence returned is the
\* candidate of the last window tried.
C11_SomeWindowQualifies ==
  sel.branch = "inside" /\ sel.t_min_eff <= sel.t_song /\ sel.t_song <= sel.t_max_eff
    => /\ pc \in {"find_best", "done"}
       /\ pc = "find_best" => \A i \in 1..Len(attempts) : ~attempts[i].candidate.some
       /\ pc = "done"
            => /\ attempts # << >>
               /\ attempts[Len(attempts)].candidate.some
               /\ sequence = attempts[Len(attempts)].candidate

\* the song is exactly as long as the baseline sequence, the lower end of
\* the band, and the window search returned a candidate
C11_Witness_AtLowerEdge ==
  /\ pc = "done"
  /\ sel.branch = "inside"
  /\ sel.t_song = sel.t_min_eff
  /\ sel.t_min_eff < sel.t_max_eff
  /\ attempts # << >>
  /\ sequence = attempts[Len(attempts)].candidate
  /\ sequence.some

\* the segment planner call under study returned what the search computed
\* in one piece returns for the same arguments
SegmentAgrees ==
  seg.pc = "returned"
    => seg.result = plan_segment_internal(seg.start_state, seg.end_pose,
                                          seg.intermediates_pool,
                                          FloatOf(seg.time_budget_for_segment),
                                          seg.mode)

\* the nodes one pose longer than those of `nodes`: each pose of the pool
\* whose pre the node's state satisfies and that fits the budget (+1e-6)
Extended(nodes, intermediates_pool, time_budget_for_segment) ==
  UNION {{SegNode(apply_pose(nd.state, intermediates_pool[i]),
                  nd.t_used + intermediates_pool[i].duration,
                  Append(nd.path, intermediates_pool[i])) :
            i \in {j \in 1..Len(intermediates_pool) :
                     /\ state_satisfies(nd.state, intermediates_pool[j].pre)
                     /\ nd.t_used + intermediates_pool[j].duration
                          <= time_budget_for_segment + EPS}} :
         nd \in nodes}

\* `nodes` and every precondition-valid extension of them by at most n
\* poses within the budget
RECURSIVE ValidPaths(_, _, _, _)
ValidPaths(nodes, n, intermediates_pool, time_budget_for_segment) ==
  IF n = 0 \/ nodes = {} THEN nodes
  ELSE nodes \cup ValidPaths(Extended(nodes, intermediates_pool, time_budget_for_segment),
                             n - 1, intermediates_pool, time_budget_for_segment)

\* every precondition-valid sequence of at most 6 pool poses within the
\* budget that leads from the start state of the call under study to a
\* state satisfying end_pose.pre
Solutions ==
  {nd \in ValidPaths({SegNode(seg.start_state, 0, << >>)}, 6,
                     seg.intermediates_pool, seg.time_budget_for_segment) :
     state_satisfies(nd.state, seg.end_pose.pre)}

\* C12: when plan_segment_min returns a path of k poses, no precondition-valid
\* sequence of fewer than k pool poses within the budget (+1e-6) leads from
\* the start state to a state satisfying end_pose.pre.
C12_ShortestByCount ==
  seg.pc = "returned" /\ seg.mode = "min" /\ seg.result.some
    => \A sol \in Solutions : Len(sol.path) >= Len(seg.result.val)

\* C13: when plan_segment_min returns a path, no precondition-valid sequence
\* of pool poses within the budget that reaches a state satisfying
\* end_pose.pre has a strictly smaller total duration.
C13_ShortestByTime ==
  seg.pc = "returned" /\ seg.mode = "min" /\ seg.result.some
    => \A sol \in Solutions : sol.t_used >= total_duration(seg.result.val)

\* C19: plan_segment_min returns None only if no precondition-valid sequence
\* of at most 6 pool poses within the budget (+1e-6) leads from the start
\* state to a state satisfying end_pose.pre.
C19_NoneOnlyIfInfeasible ==
  seg.pc = "returned" /\ seg.mode = "min" /\ ~seg.result.some => Solutions = {}

\* C20: the path plan_segment_max returns has the greatest total duration
\* among all precondition-valid sequences of at most 6 pool poses within the
\* budget (+1e-6) whose final state satisfies end_pose.pre.
C20_LongestFound ==
  seg.pc = "returned" /\ seg.mode = "max" /\ seg.result.some
    => \A sol \in Solutions : sol.t_used <= total_duration(seg.result.val)

\* the state after performing path[1..n] from `state`
RECURSIVE StateFrom(_, _, _)
StateFrom(state, path, n) ==
  IF n = 0 THEN state ELSE apply_pose(StateFrom(state, path, n - 1), path[n])

\* path has at most 6 poses, fits the budget (+1e-6), and each of its poses
\* has its pre satisfied by the state folded from the start state
WithinLimits(path) ==
  /\ Len(path) <= 6
  /\ total_duration(path) <= seg.time_budget_for_segment + EPS
  /\ \A i \in 1..Len(path) :
       state_satisfies(StateFrom(seg.start_state, path, i - 1), path[i].pre)

\* C18: every node in the queue of the segment search, and every path it
\* returns in either mode, has at most 6 poses, a total duration of at most
\* the budget + 1e-6, and each pose's pre satisfied by the state folded from
\* the start state over the poses before it; the node's state and time are
\* those of its path; the final state of a returned path satisfies
\* end_pose.pre.
C18_NodesWithinLimits ==
  /\ \A i \in 1..Len(seg.q) :
       /\ WithinLimits(seg.q[i].path)
       /\ seg.q[i].t_used = total_duration(seg.q[i].path)
       /\ seg.q[i].state = StateFrom(seg.start_state, seg.q[i].path, Len(seg.q[i].path))
  /\ seg.pc = "returned" /\ seg.result.some
       => /\ WithinLimits(seg.result.val)
          /\ state_satisfies(StateFrom(seg.start_state, seg.result.val,
                                        Len(seg.result.val)),
                              seg.end_pose.pre)

\* the longest-mode search returned a path of 6 poses that changes the
\* state on its way and ends within 1e-6 of the budget or below it, after
\* nodes of 6 poses were dropped from the queue unexpanded
C18_Witness_SixPosesReturned ==
  /\ seg.pc = "returned"
  /\ seg.mode = "max"
  /\ seg.result.some
  /\ Len(seg.result.val) = 6
  /\ seg.result.val[6] = POSE_KNEEL
  /\ seg.q = << >>

\* how far main or a direct planner call has come: the call it is in, the
\* place in it, and the segment or window it is at
Progress ==
  100 * (IF call.caller = "main" /\ call.mode = "max" THEN 1 ELSE 0)
    + 10 * (CASE pc = "start" -> 0
              [] pc = "planning" -> 1
              [] pc = "enforcing" -> 2
              [] pc = "call_done" -> 3
              [] pc = "choose" -> 4
              [] pc = "find_best" -> 5
              [] pc = "find_failed" -> 6
              [] OTHER -> 7)
    + (IF pc = "planning" THEN loc.idx ELSE IF pc = "find_best" THEN window ELSE 0)

\* C17: the segment search terminates, whatever its arguments: every
\* iteration removes the node it handles, an iteration on a node whose path
\* has 6 poses appends nothing to the queue, and the call, once made, returns
\* a path or None.  Every step of a planner call and of main's selection
\* moves it forward (one more segment, one more window, the next place), so
\* that these end after a bounded number of segment searches.
C17_SearchTerminates ==
  /\ [][seg.pc = "loop" /\ seg.q # << >>
          => /\ Len(seg'.q) >= Len(seg.q) - 1
             /\ SubSeq(seg'.q, 1, Len(seg.q) - 1) = Tail(seg.q)
             /\ Len(Head(seg.q).path) >= 6 => seg'.q = Tail(seg.q)]_vars
  /\ [][pc # "segment" => Progress' > Progress /\ Progress' <= 170]_vars
  /\ (seg.pc = "call") ~> (seg.pc = "returned")

\* the queue ran empty after nodes of 6 poses were met: the shortest-mode
\* search returned None
C17_Witness_QueueEmptied ==
  /\ seg.pc = "returned"
  /\ seg.mode = "min"
  /\ ~seg.result.some
  /\ seg.q = << >>
  /\ \E key \in seg.acc.visited : key[3] = 5

\* n copies of pose p
Copies(p, n) == [i \in 1..n |-> p]

\* the k-th run of at most 6 poses of fill
Chunk(fill, k) ==
  IF 6 * (k - 1) >= Len(fill) THEN << >>
  ELSE SubSeq(fill, 6 * (k - 1) + 1, Min2(6 * k, Len(fill)))

\* the mandatory poses from the i-th on, with the runs of fill from the k-th
\* on placed after the mandatory poses that leave the robot standing
RECURSIVE Backbone(_, _, _)
Backbone(i, k, fill) ==
  IF i = Len(mandatory_order) THEN << mandatory_order[i] >>
  ELSE IF state_satisfies(StateAfter(mandatory_order, i), Standing)
    THEN << mandatory_order[i] >> \o Chunk(fill, k) \o Backbone(i + 1, k + 1, fill)
  ELSE << mandatory_order[i] >> \o Backbone(i + 1, k, fill)

\* seq is the mandatory backbone in order with all of fill placed in it,
\* at most 6 to a segment, and every pose's pre holds where it stands
ValidChoreography(seq, fill) ==
  /\ Len(seq) = Len(mandatory_order) + Len(fill)
  /\ \A i \in 1..(Len(seq) - 1) : state_satisfies(StateAfter(seq, i), seq[i + 1].pre)

\* C14: plan_full_choreography_maximal called with the cap 117 s, as main
\* calls it, returns the longest feasible choreography under the cap: no
\* sequence made of the mandatory backbone in order with precondition-valid
\* pool intermediates, at most 6 per segment, and a total raw duration of at
\* most rawCap lasts longer than the returned one.  The sequences compared
\* are those whose intermediates are a copies of one pool pose followed by b
\* copies of another.
C14_MaximalIsLongest ==
  pc = "call_done" /\ call.caller = "main" /\ call.mode = "max" /\ result.kind = "seq"
    => \A i \in 1..Len(pool), j \in 1..Len(pool) :
         \A a \in 0..(loc.interm_budget_total \div pool[i].duration) :
           \A b \in 0..((loc.interm_budget_total - a * pool[i].duration)
                          \div pool[j].duration) :
             total_duration(mandatory_order) + a * pool[i].duration
                 + b * pool[j].duration > total_duration(result.seq)
               => ~ValidChoreography(
                      Backbone(1, 1, Copies(pool[i], a) \o Copies(pool[j], b)),
                      Copies(pool[i], a) \o Copies(pool[j], b))

\* C15: mandatory_order() returns, on every call, the 8 mandatory poses in
\* the order StandInit, Sit, SitRelax, Stand, WipeForehead, Hello,
\* StandZero, Crouch.  It takes no argument and reads no state; every
\* planner call makes such a call.
C15_MandatoryOrderAsDocumented ==
  call.caller # "none"
    => [i \in 1..Len(mandatory_order) |-> mandatory_order[i].file_id]
         = << "14-StandInit", "16-Sit", "17-SitRelax", "11-Stand", "Wipe_Forehead",
              "Hello", "15-StandZero", "6-Crouch" >>

\* the required file ids that the catalog in use resolves
PresentRequiredIds == RequiredIds \cap FileIds(pool)

\* C16: with one required-intermediate id absent from the pool,
\* plan_full_choreography does not raise and does not fail on that account:
\* it returns None before planning exactly when the mandatory poses plus the
\* required poses the pool resolves exceed the cap (+1e-6), it returns a
\* sequence otherwise, and that sequence contains every required id present
\* in the pool (and not the absent one).
C16_AbsentRequiredIdSkipped ==
  pc = "call_done" /\ call.mode = "min" /\ RequiredIds \ FileIds(pool) # {}
    => /\ result.kind # "raised"
       /\ result.kind = "none"
            <=> total_duration(mandatory_order)
                  + total_duration(ResolveIds(pool, REQUIRED_INTERMEDIATE_FILE_IDS))
                > RawCapOf(call.song_length_seconds) + EPS
       /\ result.kind = "none" => loc.idx = 0 /\ loc.segment_calls = 0
       /\ result.kind = "seq"
            => RequiredIds \cap FileIds(result.seq) = PresentRequiredIds

\* plan_full_choreography returned a sequence with the four resolvable
\* required ids for a cap that the five required poses together exceed
C16_Witness_FourEnforced ==
  /\ pc = "call_done"
  /\ call.mode = "min"
  /\ result.kind = "seq"
  /\ Cardinality(PresentRequiredIds) = 4
  /\ RequiredIds \cap FileIds(result.seq) = PresentRequiredIds
  /\ RequiredTimeRaw > RawCapOf(call.song_length_seconds) + EPS

\* the mandatory poses that can be the end pose of a segment
SegmentEnds == {mandatory_order[i] : i \in 2..Len(mandatory_order)}

\* C21: in the full planner, when the working budget of a segment,
\* min(soft target if positive else remaining, remaining), is at most 1e-6,
\* the segment planner is not invoked: the next mandatory pose is appended
\* directly, with no intermediates, if the current state satisfies its pre,
\* and otherwise the planning call returns None.  The first conjunct is about
\* the loop iteration the planner makes; the second applies the same
\* iteration to each logical state, each next mandatory pose, and the
\* remaining budgets one bit inside -1e-6 and 1e-6 and zero.
C21_NoBudgetGoesDirect ==
  [][pc = "planning" /\ loc.idx < NumSegments
       /\ ~BelowMinusTolerance(Remaining(loc))
       /\ WithinTolerance(SegmentBudget(SoftTarget(loc, RemainingBudget(loc)),
                                        Remaining(loc)))
       => /\ loc'.segment_calls = loc.segment_calls
          /\ IF state_satisfies(loc.current_state, mandatory_order[loc.idx + 2].pre)
               THEN /\ loc'.status = "running"
                    /\ loc'.full_sequence
                         = Append(loc.full_sequence, mandatory_order[loc.idx + 2])
                    /\ loc'.interm_budget_used = loc.interm_budget_used
                    /\ loc'.idx = loc.idx + 1
               ELSE loc'.status = "none" /\ result' = ReturnedNone
          /\ \A state \in {EmptyState, Standing, NotStanding}, end_pose \in SegmentEnds,
                remaining_budget \in {Double(-EPS, 1), Double(0, 0), Double(EPS, -1)} :
               \E l \in {SegmentBudgeted([loc EXCEPT !.current_state = state], end_pose,
                                         remaining_budget,
                                         SegmentBudget(SoftTarget(loc, remaining_budget.t),
                                                       remaining_budget),
                                         call.mode, pool)} :
                 /\ l.segment_calls = loc.segment_calls
                 /\ IF state_satisfies(state, end_pose.pre)
                      THEN /\ l.status = "running"
                           /\ l.full_sequence = Append(loc.full_sequence, end_pose)
                           /\ l.current_state = apply_pose(state, end_pose)
                      ELSE Outcome(l) = ReturnedNone]_vars

\* a loop iteration found the budget used up and appended the next
\* mandatory pose without a search; the planner is still in its loop
C21_Witness_DirectAppend ==
  /\ pc = "planning"
  /\ loc.idx >= 2
  /\ loc.segment_calls < loc.idx
  /\ RemainingBudget(loc) <= EPS
  /\ loc.full_sequence[Len(loc.full_sequence)] = mandatory_order[loc.idx + 1]
  /\ loc.full_sequence[Len(loc.full_sequence) - 1] = mandatory_order[loc.idx]

\* the required poses, in the fixed required order, that seq does not hold
MissingRequired(seq) ==
  LET ids == SelectSeq(REQUIRED_INTERMEDIATE_FILE_IDS,
                       LAMBDA fid : fid \notin FileIds(seq)
                                    /\ \E k \in 1..Len(pool) : pool[k].file_id = fid)
  IN  [j \in 1..Len(ids) |->
         pool[CHOOSE k \in 1..Len(pool) : pool[k].file_id = ids[j]]]

\* new_seq is seq with the poses `missing` inserted as one block just before
\* the last pose, which is the final mandatory pose; nothing else differs
SplicedBeforeFinal(new_seq, seq, missing) ==
  /\ Len(new_seq) = Len(seq) + Len(missing)
  /\ \A i \in 1..(Len(seq) - 1) : new_seq[i] = seq[i]
  /\ \A j \in 1..Len(missing) : new_seq[Len(seq) - 1 + j] = missing[j]
  /\ new_seq[Len(new_seq)] = final_pose
  /\ seq[Len(seq)] = final_pose

\* the mandatory backbone with pose p performed right after the initial pose
BackboneWith(p) == << mandatory_order[1], p >> \o Tail(mandatory_order)

\* C22: when plan_full_choreography splices missing required intermediates,
\* the result is the generic minimal sequence with exactly the missing
\* required poses inserted as one block, in the fixed required order, just
\* before the final mandatory pose; every other element and the relative
\* order of the original sequence are unchanged and the final pose stays
\* last.  The second conjunct applies the splice to the backbone holding one
\* required pose already, where only the others are missing.
C22_SpliceBeforeFinal ==
  pc = "call_done" /\ call.mode = "min" /\ result.kind = "seq"
    /\ result.seq # loc.full_sequence
    => /\ MissingRequired(loc.full_sequence) # << >>
       /\ SplicedBeforeFinal(result.seq, loc.full_sequence,
                             MissingRequired(loc.full_sequence))
       /\ \A k \in 1..Len(pool) :
            pool[k].file_id \in RequiredIds
              => \E s \in {BackboneWith(pool[k])} :
                   \E r \in {EnforceRequired(s, call.song_length_seconds,
                                              speed_factor, pool)} :
                     /\ Len(MissingRequired(s)) = Cardinality(PresentRequiredIds) - 1
                     /\ r # s => SplicedBeforeFinal(r, s, MissingRequired(s))

\* plan_full_choreography returned the backbone with the five required
\* poses between Wipe_Forehead and Crouch, Rotation_handgun first and
\* Move_backward last, for the default target; for that target the backbone
\* holding Diagonal_left already gets the other four spliced
C22_Witness_BlockBeforeCrouch ==
  /\ pc = "call_done"
  /\ call.mode = "min"
  /\ call.song_length_seconds = None
  /\ result.kind = "seq"
  /\ Len(result.seq) = Len(loc.full_sequence) + 5
  /\ result.seq[Len(loc.full_sequence) - 1] = POSE_WIPE_FOREHEAD
  /\ result.seq[Len(loc.full_sequence)] = POSE_ROTATION_HANDGUN
  /\ result.seq[Len(result.seq) - 1] = POSE_MOVE_BACKWARD
  /\ result.seq[Len(result.seq)] = POSE_CROUCH
  /\ Len(EnforceRequired(BackboneWith(POSE_DIAGONAL_LEFT), None, speed_factor, pool))
       = Len(mandatory_order) + 5

\* C23: whenever the generic minimal planner returns a sequence (the
\* feasibility check of the required set has passed), the duration of that
\* sequence plus the summed duration of the missing required intermediates
\* is at most rawCap + 1e-6, and the branch of plan_full_choreography that
\* leaves the sequence unchanged because the splice would exceed the cap is
\* not taken: a sequence with a required pose missing is never returned as
\* it is.
C23_SpliceAlwaysFits ==
  pc = "call_done" /\ call.mode = "min" /\ result.kind = "seq"
    /\ MissingRequired(loc.full_sequence) # << >>
    => /\ ~ExceedsTolerance(FloatAdd(FloatSum(loc.full_sequence),
                                     FloatSum(MissingRequired(loc.full_sequence))),
                            Double(loc.hard_cap_raw, loc.bits.hard_cap_raw))
       /\ result.seq # loc.full_sequence

\* C24: for every speed factor for which both plans exist, the effective
\* duration of the maximal choreography main plans with the cap 117 s is at
\* least that of the baseline main plans with no target, so that
\* choose_sequence_for_song, called by main with the baseline first, never
\* finds t_max < t_min and never swaps the two.
C24_MaximalNotShorter ==
  t_min_seq.some /\ t_max_seq.some
    => /\ EffectiveDuration(t_max_seq.val, speed_factor)
            >= EffectiveDuration(t_min_seq.val, speed_factor)
       /\ total_duration(t_max_seq.val) >= total_duration(t_min_seq.val)
       /\ pc = "choose"
            => \A song_length \in SongChoices :
                 ~ChooseBranch(t_min_seq.val, t_max_seq.val, song_length,
                               speed_factor).swapped

\* main holds both plans at the speed factor 0.965, where the raw cap is
\* 112.905 s: the baseline of 112.695 s and a maximal plan that fills the
\* cap, planned by the maximal planner; main is about to call
\* choose_sequence_for_song
C24_Witness_BothPlansExist ==
  /\ pc = "choose"
  /\ speed_factor = Ratio(193, 200)
  /\ call.mode = "max"
  /\ result.kind = "seq"
  /\ t_max_seq = Some(result.seq)
  /\ t_min_seq.some
  /\ total_duration(t_min_seq.val) = Ms(112695)
  /\ total_duration(t_max_seq.val) = Ms(112905)

\* the feasibility check of the required set has passed in the planner call
\* whose locals are loc
RequiredCheckPassed ==
  /\ loc.status \in {"running", "none", "returned"}
  /\ ~ExceedsTolerance(FloatSum(required_poses_for_time_check(pool)),
                       Double(loc.hard_cap_raw, loc.bits.hard_cap_raw))

\* C25: in the generic planner, once the feasibility check of the required
\* set has passed, the intermediates inserted so far never take more than
\* the intermediate budget rawCap - mandatoryDuration (+1e-6) when a segment
\* iteration starts, so that the call never ends in the mandatory-only
\* guard, in the "no remaining intermediate budget" failure or in the final
\* "planned total exceeds raw hard cap" guard.
C25_GuardsNeverReached ==
  RequiredCheckPassed
    => /\ ~ExceedsTolerance(FloatSum(mandatory_order),
                            Double(loc.hard_cap_raw, loc.bits.hard_cap_raw))
       /\ loc.idx < NumSegments
            => /\ loc.interm_budget_used >= 0
               /\ ~BelowMinusTolerance(Remaining(loc))
       /\ ~(loc.status = "none" /\ loc.idx = NumSegments)

\* C26: with the reference catalog, a call of plan_full_choreography or of
\* plan_full_choreography_maximal with a positive speed factor and a raw cap
\* that is at least the duration of the mandatory and the required poses
\* returns a sequence.
C26_FeasibleTargetsArePlanned ==
  /\ pc = "call_done"
  /\ pool = all_intermediate_poses
  /\ speed_factor.num > 0
  /\ RequiredTimeRaw <= HardCapRaw(call.song_length_seconds, speed_factor)
  => result.kind = "seq"

====
